---- MODULE Spec2Model ----
(***************************************************************************)
(* noise_cat: a page that turns microphone loudness into the mood of a     *)
(* cartoon cat.  The model covers the three StateMachine classes of the    *)
(* repository                                                              *)
(*   "fixed"       src/src/logic/StateMachine.js  (gain 0.05, no storage)  *)
(*   "fixedStored" src/unnamed/part_001           (gain 0.005, storage)    *)
(*   "band"        src/script.js                  (band-relative rate)     *)
(* with their update / determineState / setSettings / loadSettings code.   *)
(*                                                                         *)
(* JavaScript numbers are IEEE 754 binary64 values.  Stress, rates and     *)
(* settings are therefore modelled as binary64 values with correctly       *)
(* rounded +, -, *, / (round to nearest, ties to even), Infinity and NaN,  *)
(* not as reals: whether a sum of 180 rates reaches a threshold is decided *)
(* by the rounding.  Magnitudes are arbitrary-precision naturals kept as   *)
(* little-endian sequences of 15-bit limbs.  Exponent overflow, subnormals *)
(* and the sign of zero are out of the range the program's values reach    *)
(* and are not modelled.                                                   *)
(***************************************************************************)
EXTENDS Integers, Sequences, FiniteSets, TLC

(***************************************************************************)
(* Arbitrary-precision naturals                                            *)
(***************************************************************************)
LimbBits == 15
Base == 2^LimbBits
\* significand width of a binary64 value
Precision == 53



RECURSIVE BNorm(_)
BNorm(a) ==
    IF a = <<>> THEN a
    ELSE IF a[Len(a)] = 0 THEN BNorm(SubSeq(a, 1, Len(a) - 1)) ELSE a

RECURSIVE BFromInt(_)
BFromInt(n) == IF n = 0 THEN <<>> ELSE <<n % Base>> \o BFromInt(n \div Base)

RECURSIVE BAddC(_, _, _)
BAddC(a, b, c) ==
    IF a = <<>> /\ b = <<>> THEN (IF c = 0 THEN <<>> ELSE <<c>>)
    ELSE LET x == IF a = <<>> THEN 0 ELSE Head(a)
             y == IF b = <<>> THEN 0 ELSE Head(b)
             t == x + y + c
         IN  <<t % Base>> \o BAddC(IF a = <<>> THEN a ELSE Tail(a),
                                   IF b = <<>> THEN b ELSE Tail(b), t \div Base)

BAdd(a, b) == BAddC(a, b, 0)

RECURSIVE BSubC(_, _, _)
BSubC(a, b, c) ==
    IF a = <<>> THEN <<>>
    ELSE LET y == IF b = <<>> THEN 0 ELSE Head(b)
             t == Head(a) - y - c
         IN  <<t % Base>> \o BSubC(Tail(a), IF b = <<>> THEN b ELSE Tail(b),
                                   IF t < 0 THEN 1 ELSE 0)

BSub(a, b) == BNorm(BSubC(a, b, 0))

RECURSIVE BCmpAt(_, _, _)
BCmpAt(a, b, i) ==
    IF i = 0 THEN 0
    ELSE IF a[i] < b[i] THEN -1
    ELSE IF a[i] > b[i] THEN 1
    ELSE BCmpAt(a, b, i - 1)

BCmp(a, b) ==
    IF Len(a) < Len(b) THEN -1
    ELSE IF Len(a) > Len(b) THEN 1
    ELSE BCmpAt(a, b, Len(a))

RECURSIVE BMulSmallC(_, _, _)
BMulSmallC(a, k, c) ==
    IF a = <<>> THEN (IF c = 0 THEN <<>> ELSE <<c>>)
    ELSE LET t == Head(a) * k + c
         IN  <<t % Base>> \o BMulSmallC(Tail(a), k, t \div Base)

BMulSmall(a, k) == IF k = 0 THEN <<>> ELSE BMulSmallC(a, k, 0)

RECURSIVE BMul(_, _)
BMul(a, b) ==
    IF a = <<>> \/ b = <<>> THEN <<>>
    ELSE BAdd(BMulSmall(a, Head(b)),
              IF Tail(b) = <<>> THEN <<>> ELSE <<0>> \o BMul(a, Tail(b)))

Zeros(n) == [i \in 1..n |-> 0]

BShl(a, k) ==
    IF a = <<>> THEN a
    ELSE Zeros(k \div LimbBits) \o BMulSmall(a, 2^(k % LimbBits))

\* quotient of a by the small d, high limb first; r is the running remainder
RECURSIVE BDivSmallAt(_, _, _, _)
BDivSmallAt(a, d, i, r) ==
    IF i = 0 THEN <<>>
    ELSE LET t == r * Base + a[i]
         IN  BDivSmallAt(a, d, i - 1, t % d) \o <<t \div d>>

BDivSmall(a, d) == BNorm(BDivSmallAt(a, d, Len(a), 0))

RECURSIVE BModSmallAt(_, _, _, _)
BModSmallAt(a, d, i, r) ==
    IF i = 0 THEN r ELSE BModSmallAt(a, d, i - 1, (r * Base + a[i]) % d)

BModSmall(a, d) == BModSmallAt(a, d, Len(a), 0)

BShr(a, k) ==
    IF k \div LimbBits >= Len(a) THEN <<>>
    ELSE BDivSmall(SubSeq(a, k \div LimbBits + 1, Len(a)), 2^(k % LimbBits))

\* a mod 2^k = 0
BLowZero(a, k) ==
    /\ \A i \in 1..(k \div LimbBits) : i > Len(a) \/ a[i] = 0
    /\ (k \div LimbBits + 1 > Len(a)) \/ (a[k \div LimbBits + 1] % (2^(k % LimbBits)) = 0)

RECURSIVE IntBitLen(_)
IntBitLen(n) == IF n = 0 THEN 0 ELSE 1 + IntBitLen(n \div 2)

BBitLen(a) == IF a = <<>> THEN 0 ELSE LimbBits * (Len(a) - 1) + IntBitLen(a[Len(a)])

BBit(a, i) ==  \* bit i (0 = lowest)
    IF i \div LimbBits + 1 > Len(a) THEN 0 ELSE (a[i \div LimbBits + 1] \div (2^(i % LimbBits))) % 2

\* largest t in lo..hi with t * b <= r
RECURSIVE BDigit(_, _, _, _)
BDigit(r, b, lo, hi) ==
    IF lo = hi THEN lo
    ELSE LET mid == (lo + hi + 1) \div 2
         IN  IF BCmp(BMulSmall(b, mid), r) <= 0 THEN BDigit(r, b, mid, hi)
             ELSE BDigit(r, b, lo, mid - 1)

\* long division, one limb at a time: <<quotient, remainder>> of the limbs i..Len(a) of a
RECURSIVE BDivModAt(_, _, _)
BDivModAt(a, b, i) ==
    IF i > Len(a) THEN <<<<>>, <<>>>>
    ELSE LET p == BDivModAt(a, b, i + 1)
             r2 == BNorm(<<a[i]>> \o p[2])
             t == BDigit(r2, b, 0, Base - 1)
         IN  <<BNorm(<<t>> \o p[1]), BSub(r2, BMulSmall(b, t))>>

BDivMod(a, b) ==
    IF Len(b) = 1 THEN <<BDivSmall(a, b[1]), BFromInt(BModSmall(a, b[1]))>>
    ELSE BDivModAt(a, b, 1)

RECURSIVE BTrailingZeros(_)
BTrailingZeros(a) ==
    IF a = <<>> THEN 0
    ELSE IF Head(a) = 0 THEN LimbBits + BTrailingZeros(Tail(a))
    ELSE IF Head(a) % 2 = 0 THEN 1 + BTrailingZeros(BDivSmall(a, 2))
    ELSE 0

(***************************************************************************)
(* binary64 values: k is "fin", "inf" or "nan" ("undef" for a missing      *)
(* property); a finite value is (-1)^s * m * 2^e with m odd (or m = <<>>   *)
(* for zero), so that equal numbers are equal records.  A value read back  *)
(* from JSON may also be null (k = "null") or a non-numeric string         *)
(* (k = "str"); the operators convert their operands as JavaScript's do.   *)
(***************************************************************************)
NaN == [k |-> "nan", s |-> 0, m |-> <<>>, e |-> 0]
Inf(s) == [k |-> "inf", s |-> s, m |-> <<>>, e |-> 0]
Zero == [k |-> "fin", s |-> 0, m |-> <<>>, e |-> 0]

\* ToNumber: undefined and a non-numeric string give NaN, null gives 0
Num(x) ==
    IF x.k \in {"fin", "inf", "nan"} THEN x
    ELSE IF x.k = "null" THEN Zero
    ELSE NaN

Canon(s, n, e) ==
    IF n = <<>> THEN Zero
    ELSE LET z == BTrailingZeros(n)
         IN  [k |-> "fin", s |-> s, m |-> BShr(n, z), e |-> e + z]

\* nearest binary64 to (-1)^s * (n + sticky) * 2^e, ties to even
Round53(s, n, e, sticky) ==
    LET bl == BBitLen(n)
    IN  IF bl <= Precision THEN Canon(s, n, e)
        ELSE LET sh == bl - Precision
                 q == BShr(n, sh)
                 halfBit == BBit(n, sh - 1) = 1
                 below == ~BLowZero(n, sh - 1) \/ sticky
                 up == halfBit /\ (below \/ BBit(q, 0) = 1)
             IN  Canon(s, IF up THEN BAdd(q, <<1>>) ELSE q, e + sh)

FromInt(n) == IF n < 0 THEN Canon(1, BFromInt(-n), 0) ELSE Canon(0, BFromInt(n), 0)

FNegNum(x) == IF x.k = "nan" \/ (x.k = "fin" /\ x.m = <<>>) THEN x ELSE [x EXCEPT !.s = 1 - x.s]
FNeg(x) == FNegNum(Num(x))

\* -1, 0, 1 for finite x, y
FCmpFin(x, y) ==
    LET e == IF x.e < y.e THEN x.e ELSE y.e
        a == BShl(x.m, x.e - e)
        b == BShl(y.m, y.e - e)
    IN  IF x.m = <<>> /\ y.m = <<>> THEN 0
        ELSE IF x.s # y.s THEN (IF x.s = 1 THEN -1 ELSE 1)
        ELSE IF x.s = 0 THEN BCmp(a, b) ELSE BCmp(b, a)

\* -1, 0, 1 for numbers other than NaN
FCmp(x, y) ==
    IF x.k = "inf" THEN (IF y.k = "inf" /\ y.s = x.s THEN 0 ELSE IF x.s = 1 THEN -1 ELSE 1)
    ELSE IF y.k = "inf" THEN (IF y.s = 1 THEN 1 ELSE -1)
    ELSE FCmpFin(x, y)

Ordered(x, y) == Num(x).k # "nan" /\ Num(y).k # "nan"

FLt(x, y) == Ordered(x, y) /\ FCmp(Num(x), Num(y)) < 0
FGt(x, y) == Ordered(x, y) /\ FCmp(Num(x), Num(y)) > 0
FGe(x, y) == Ordered(x, y) /\ FCmp(Num(x), Num(y)) >= 0
FLe(x, y) == Ordered(x, y) /\ FCmp(Num(x), Num(y)) <= 0

FAddFin(x, y) ==
    LET e == IF x.e < y.e THEN x.e ELSE y.e
        a == BShl(x.m, x.e - e)
        b == BShl(y.m, y.e - e)
    IN  IF x.m = <<>> THEN y
        ELSE IF y.m = <<>> THEN x
        ELSE IF x.s = y.s THEN Round53(x.s, BAdd(a, b), e, FALSE)
        ELSE IF BCmp(a, b) >= 0 THEN Round53(x.s, BSub(a, b), e, FALSE)
        ELSE Round53(y.s, BSub(b, a), e, FALSE)

FAddNum(x, y) ==
    IF x.k = "nan" \/ y.k = "nan" THEN NaN
    ELSE IF x.k = "inf" THEN (IF y.k = "inf" /\ y.s # x.s THEN NaN ELSE x)
    ELSE IF y.k = "inf" THEN y
    ELSE FAddFin(x, y)
FAdd(x, y) == FAddNum(Num(x), Num(y))

FSub(x, y) == FAdd(x, FNeg(y))

FMulNum(x, y) ==
    IF x.k = "nan" \/ y.k = "nan" THEN NaN
    ELSE IF x.k = "inf" \/ y.k = "inf"
         THEN (IF (x.k = "fin" /\ x.m = <<>>) \/ (y.k = "fin" /\ y.m = <<>>) THEN NaN
               ELSE Inf((x.s + y.s) % 2))
    ELSE Round53((x.s + y.s) % 2, BMul(x.m, y.m), x.e + y.e, FALSE)
FMul(x, y) == FMulNum(Num(x), Num(y))

FDivNum(x, y) ==
    IF x.k = "nan" \/ y.k = "nan" THEN NaN
    ELSE IF x.k = "inf" THEN (IF y.k = "inf" THEN NaN ELSE Inf((x.s + y.s) % 2))
    ELSE IF y.k = "inf" THEN Zero
    ELSE IF y.m = <<>> THEN (IF x.m = <<>> THEN NaN ELSE Inf((x.s + y.s) % 2))
    ELSE IF x.m = <<>> THEN Zero
    ELSE LET sh == Precision + 2 + BBitLen(y.m)
             qr == BDivMod(BShl(x.m, sh), y.m)
         IN  Round53((x.s + y.s) % 2, qr[1], x.e - y.e - sh, qr[2] # <<>>)
FDiv(x, y) == FDivNum(Num(x), Num(y))

\* Math.max
FMax(x, y) ==
    IF ~Ordered(x, y) THEN NaN
    ELSE IF FCmp(Num(x), Num(y)) >= 0 THEN Num(x) ELSE Num(y)

Dec(num, den) == FDiv(FromInt(num), FromInt(den))

\* a property that is absent (JavaScript undefined)
Undefined == [k |-> "undef", s |-> 0, m |-> <<>>, e |-> 0]

\* null, and a string that is no number (as JSON.parse can return them)
Null == [k |-> "null", s |-> 0, m |-> <<>>, e |-> 0]
Text == [k |-> "str", s |-> 0, m |-> <<>>, e |-> 0]

\* JavaScript truthiness of a number, a non-empty string, null or an absent
\* property: if (x)
Truthy(x) == x.k \in {"inf", "str"} \/ (x.k = "fin" /\ x.m # <<>>)

(***************************************************************************)
(* Program constants                                                       *)
(***************************************************************************)
MaxStressValue == 100
VolumeThresholdValue == 10
FrameRate == 60
DefaultStateDuration == 5
DefaultTransitionTime == 3

maxStress == FromInt(MaxStressValue)
volumeThreshold == FromInt(VolumeThresholdValue)
DefaultSensitivity == FromInt(1)
\* 0.05 in logic/StateMachine.js, 0.005 in part_001
GainFixed == Dec(5, 100)
GainFixedStored == Dec(5, 1000)
MinTransitionTime == Dec(1, 10)

Moods == <<"SLEEP", "CALM", "ANXIOUS", "IRRITATED", "PANIC">>

Limits(a, b, c, d) ==
    [SLEEP |-> FromInt(a), CALM |-> FromInt(b), ANXIOUS |-> FromInt(c), IRRITATED |-> FromInt(d)]

DefaultThresholds == Limits(10, 30, 60, 90)
\* the literals of determineState in the two fixed-multiplier classes
FixedThresholds == Limits(10, 30, 60, 90)

(***************************************************************************)
(* Bounds and input sets                                                   *)
(***************************************************************************)
\* update calls explored in one run of the unconstrained specification
MaxFrames == 4

\* getVolume() results fed to update: silence, the volume threshold itself,
\* just above it, and the largest byte average
Loudness == {FromInt(0), FromInt(10), FromInt(11), FromInt(255)}

SensitivityInputs == {FromInt(1), FromInt(2)}
\* seconds: below the 0.1 floor (negative, zero) and an ordinary value
DurationInputs == {FromInt(-1), FromInt(0), FromInt(3)}
\* default, touching both ends of [0,100], out of order
LimitInputs == {Limits(10, 30, 60, 90), Limits(0, 30, 60, 100), Limits(30, 10, 60, 90)}

Variants == {"fixed", "fixedStored", "band"}

\* inputs of the classification on its own: whole and half stress values, the
\* NaN a division 0/0 leaves, and limits with equal and descending boundaries
StressSamples ==
    {FromInt(i) : i \in 0..MaxStressValue}
        \cup {FDiv(FromInt(2 * i + 1), FromInt(2)) : i \in 0..(MaxStressValue - 1)}
        \cup {NaN}
ClassifyLimits ==
    LimitInputs \cup {Limits(10, 10, 60, 90), Limits(90, 60, 30, 10), Limits(50, 50, 50, 50)}

\* localStorage.getItem returning null
NoItem == [present |-> FALSE, parsed |-> FALSE, sensitivity |-> Undefined,
           duration |-> Undefined, thresholds |-> Undefined]

\* persistence: update calls per run, the values setSettings is given, and the
\* items a page load may find (fields absent, non-numeric, a boundary lacking,
\* or text that JSON.parse rejects)
MaxPersistFrames == 2
PersistSensitivities == {FromInt(0), FromInt(2)}
PersistDurations == {FromInt(0), FromInt(3)}
PersistLimits == {Limits(0, 30, 60, 100)}
LackingLimits ==
    [SLEEP |-> FromInt(10), CALM |-> Undefined, ANXIOUS |-> FromInt(60),
     IRRITATED |-> FromInt(90)]
Unparseable ==
    [present |-> TRUE, parsed |-> FALSE, sensitivity |-> Undefined,
     duration |-> Undefined, thresholds |-> Undefined]
StoredItems(v) ==
    {NoItem, Unparseable} \cup
    [present : {TRUE}, parsed : {TRUE},
     sensitivity : {Undefined, Text, FromInt(2)},
     duration : {Undefined, Text, FromInt(3)},
     thresholds : IF v = "band"
                  THEN {Undefined, LackingLimits, Limits(0, 30, 60, 100)}
                  ELSE {Undefined}]

\* two instances side by side: update calls made, the stress both start from,
\* the settings both have
MaxTwinFrames == 2
TwinStarts ==
    {FromInt(0), FromInt(10), FromInt(30), FromInt(60), FromInt(90), FromInt(100),
     FDiv(FromInt(19), FromInt(2)), FDiv(FromInt(119), FromInt(2))}
TwinSeconds == {FromInt(3), FromInt(5)}

\* the fixed-multiplier classes calmed down from full stress: update calls made
\* before the silence, a sensitivity that fills the scale in one loud frame, and
\* the seconds given as transitionTime
MaxRiseFrames == 3
RiseSensitivities == {FromInt(1), FromInt(100)}
CalmSeconds == {0, 1, 2, 3}

\* two band-relative instances that differ in sensitivity and in the loudness
\* they are given: update calls made
MaxPairFrames == 2

\* the band-relative class as constructed, wandering: frames of 255 at 1 second
\* per band until the loudness is left free, the seconds chosen then, and the
\* update calls made with any loudness
MaxClimbFrames == 310
WanderSeconds == {1, 3}
MaxWanderFrames == 3

\* the page: clicks on the start button, update calls, and what the analyser
\* writes into dataArray (all bins alike, or one bin only)
MaxClicks == 2
MaxAppFrames == 3
FftSize == 256
BinCount == FftSize \div 2
SampleBytes == {0, 255}
ByteArrays ==
    {[i \in 1..BinCount |-> b] : b \in SampleBytes}
        \cup {[i \in 1..BinCount |-> IF i = 1 THEN 255 ELSE 0]}

\* the sustained-loudness scenarios: 255 is fed for up to MaxLeadFrames frames
\* (0.5 per frame), then settings are chosen and the loudness is kept up
MaxLeadFrames == 180
LeadLimits == Limits(30, 60, 90, 100)
ScenarioStarts == {FromInt(0), FromInt(10), FromInt(30), FromInt(50), FromInt(60), FromInt(90)}
ScenarioSeconds == {-1, 0, 1, 3}
ScenarioLimits == {Limits(10, 30, 60, 90), Limits(0, 30, 60, 100)}
Silent == {FromInt(0), FromInt(10)}
Noisy == {FromInt(11), FromInt(255)}

VARIABLES
    variant,        \* which StateMachine class runs
    stress, state,  \* this.stress, this.state
    sensitivity,    \* this.sensitivity
    stateDuration,  \* this.stateDuration (band)
    thresholds,     \* this.thresholds (band)
    transitionTime, \* this.transitionTime (fixed classes)
    decay,          \* this.decay (fixed classes)
    storage,        \* the localStorage item of the class
    rate,           \* the per-frame amount the last update applied
    notified,       \* onStateChange invocations made by the last call
    lastOp,         \* the last call made on the instance
    frames,         \* update calls made before the loudness is held
    hold,           \* "none", or the loudness kept up from some frame on:
                    \* "silence" (at or below the volume threshold), "noise",
                    \* or "any" when every loudness may follow
    origin,         \* the stress when the loudness began to be kept up
    run,            \* update calls made since then
    isListening,    \* AudioMonitor: this.isListening
    audioContext,   \* this.audioContext: "null", "open" or "closed"
    analyser,       \* this.analyser: "null" or "set"
    capturing,      \* a start has succeeded and stop was not called since
    audioOp,        \* the last call on the monitor
    average,        \* what the last getVolume() returned
    pending,        \* start() calls waiting for getUserMedia
    contexts,       \* audio contexts created
    streams,        \* microphone streams obtained
    clicks,         \* clicks on the start button
    buttonHidden,   \* startBtn.style.display = 'none'
    alerts,         \* alert() notices shown
    denied,         \* start attempts the user denied
    escaped,        \* exceptions that left the click handler
    loops,          \* requestAnimationFrame chains started by loop()
    calls,          \* loop() callbacks run in the current animation frame
    twinStress,     \* a second instance with the same settings: its this.stress,
    twinState,      \* its this.state,
    twinNotified,   \* and the onStateChange invocations of its last call
    view            \* what updateView rendered last: image, text, class, shake

page == <<isListening, audioContext, analyser, capturing, audioOp, average, pending,
          contexts, streams, clicks, buttonHidden, alerts, denied, escaped, loops,
          calls>>

vars == <<variant, stress, state, sensitivity, stateDuration, thresholds,
          transitionTime, decay, storage, rate, notified, lastOp, frames,
          hold, origin, run, page, twinStress, twinState, twinNotified,
          view>>

twin == <<twinStress, twinState, twinNotified>>

scenario == <<frames, hold, origin, run>>


(***************************************************************************)
(* StateMachine: pure parts.  Next to a definition stands, where a claim   *)
(* is tested against it, a faulty variant on which the claim must fail.    *)
(***************************************************************************)
getCurrentStateRange(s, th) ==
    IF FLt(s, th.SLEEP) THEN [min |-> FromInt(0), max |-> th.SLEEP]
    ELSE IF FLt(s, th.CALM) THEN [min |-> th.SLEEP, max |-> th.CALM]
    ELSE IF FLt(s, th.ANXIOUS) THEN [min |-> th.CALM, max |-> th.ANXIOUS]
    ELSE IF FLt(s, th.IRRITATED) THEN [min |-> th.ANXIOUS, max |-> th.IRRITATED]
    ELSE [min |-> th.IRRITATED, max |-> FromInt(100)]

\* faulty variant: 30 frames to the second
BandRateHalfFrames(s, th, dur) ==
    LET currentRange == getCurrentStateRange(s, th)
        stateWidth == FSub(currentRange.max, currentRange.min)
    IN  FDiv(stateWidth, FMul(dur, FromInt(30)))

\* rate = stateWidth / (this.stateDuration * 60)
BandRate(s, th, dur) ==
    LET currentRange == getCurrentStateRange(s, th)
        stateWidth == FSub(currentRange.max, currentRange.min)
    IN  FDiv(stateWidth, FMul(dur, FromInt(FrameRate)))

\* addedStress = (volume - this.threshold) * this.sensitivity * gain
AddedStress(volume, sens, gain) ==
    FMul(FMul(FSub(volume, volumeThreshold), sens), gain)

\* faulty variant: the decay without the 0.1 second floor
DecayForUnfloored(time) == FDiv(maxStress, FMul(time, FromInt(FrameRate)))

\* this.decay = this.maxStress / (Math.max(0.1, this.transitionTime) * 60)
DecayFor(time) ==
    FDiv(maxStress, FMul(FMax(MinTransitionTime, time), FromInt(FrameRate)))

\* 100 / (3 * 60), the constructor's decay
DefaultDecay == FDiv(FromInt(100), FromInt(DefaultTransitionTime * FrameRate))

\* if (this.stress < 0) this.stress = 0; if (this.stress > this.maxStress) ...
Clamp(s) ==
    LET low == IF FLt(s, FromInt(0)) THEN FromInt(0) ELSE s
    IN  IF FGt(low, maxStress) THEN maxStress ELSE low

\* faulty variant: the boundaries scanned lowest first, as getCurrentStateRange does
ClassifyLowestFirst(s, th) ==
    IF FLt(s, th.SLEEP) THEN "SLEEP"
    ELSE IF FLt(s, th.CALM) THEN "CALM"
    ELSE IF FLt(s, th.ANXIOUS) THEN "ANXIOUS"
    ELSE IF FLt(s, th.IRRITATED) THEN "IRRITATED"
    ELSE "PANIC"

\* faulty variant: the boundaries compared with > instead of >=
ClassifyStrict(s, th) ==
    IF FGt(s, th.IRRITATED) THEN "PANIC"
    ELSE IF FGt(s, th.ANXIOUS) THEN "IRRITATED"
    ELSE IF FGt(s, th.CALM) THEN "ANXIOUS"
    ELSE IF FGt(s, th.SLEEP) THEN "CALM"
    ELSE "SLEEP"

\* faulty variant: the test for IRRITATED left out
ClassifyWithoutIrritated(s, th) ==
    IF FGe(s, th.IRRITATED) THEN "PANIC"
    ELSE IF FGe(s, th.CALM) THEN "ANXIOUS"
    ELSE IF FGe(s, th.SLEEP) THEN "CALM"
    ELSE "SLEEP"

\* the newState determineState computes
Classify(s, th) ==
    IF FGe(s, th.IRRITATED) THEN "PANIC"
    ELSE IF FGe(s, th.ANXIOUS) THEN "IRRITATED"
    ELSE IF FGe(s, th.CALM) THEN "ANXIOUS"
    ELSE IF FGe(s, th.SLEEP) THEN "CALM"
    ELSE "SLEEP"

ThresholdsInForce == IF variant = "band" THEN thresholds ELSE FixedThresholds

\* faulty variant: the band-relative class decaying over the whole scale, as the
\* fixed-multiplier classes do
RateOfWholeScaleDecay(volume) ==
    IF FGt(volume, volumeThreshold)
    THEN IF variant = "band" THEN BandRate(stress, thresholds, stateDuration)
         ELSE AddedStress(volume, sensitivity,
                          IF variant = "fixed" THEN GainFixed ELSE GainFixedStored)
    ELSE IF variant = "band"
         THEN FDiv(maxStress, FMul(stateDuration, FromInt(FrameRate)))
         ELSE decay

\* faulty variant: the band-relative amount scaled by the sensitivity
RateGivenScaled(s, volume, sens) ==
    IF variant = "band" THEN FMul(BandRate(s, thresholds, stateDuration), sens)
    ELSE IF FGt(volume, volumeThreshold)
         THEN AddedStress(volume, sens,
                          IF variant = "fixed" THEN GainFixed ELSE GainFixedStored)
         ELSE decay

\* the per-frame amount of a call made at stress s by an instance whose
\* this.sensitivity is sens: rate, addedStress or this.decay
RateGiven(s, volume, sens) ==
    IF variant = "band" THEN BandRate(s, thresholds, stateDuration)
    ELSE IF FGt(volume, volumeThreshold)
         THEN AddedStress(volume, sens,
                          IF variant = "fixed" THEN GainFixed ELSE GainFixedStored)
         ELSE decay

RateAt(s, volume) == RateGiven(s, volume, sensitivity)

RateOf(volume) == RateAt(stress, volume)

\* faulty variant: a loudness equal to the volume threshold adds stress
StressAfterInclusive(s, r, volume) ==
    Clamp(IF FGe(volume, volumeThreshold) THEN FAdd(s, r) ELSE FSub(s, r))

\* the stress update() stores before determineState runs, from stress s
StressAfter(s, r, volume) ==
    Clamp(IF FGt(volume, volumeThreshold) THEN FAdd(s, r) ELSE FSub(s, r))

NextStress(volume) == StressAfter(stress, RateOf(volume), volume)

(***************************************************************************)
(* The page's view of the mood                                             *)
(***************************************************************************)
\* STATE_DATA / stateImages and this.states: image file, caption, style class
StateImage(mood) ==
    CASE mood = "SLEEP" -> "sleep.png" [] mood = "CALM" -> "calm.png"
      [] mood = "ANXIOUS" -> "anxious.png" [] mood = "IRRITATED" -> "irritated.png"
      [] mood = "PANIC" -> "panic.png"
StateText(mood) ==
    CASE mood = "SLEEP" -> "Zzz..." [] mood = "CALM" -> "Meow"
      [] mood = "ANXIOUS" -> "O_O" [] mood = "IRRITATED" -> "Grrr!"
      [] mood = "PANIC" -> "AAAAH!!!"
StateClass(mood) ==
    CASE mood = "SLEEP" -> "state-sleep" [] mood = "CALM" -> "state-calm"
      [] mood = "ANXIOUS" -> "state-anxious" [] mood = "IRRITATED" -> "state-irritated"
      [] mood = "PANIC" -> "state-panic"

\* updateView(key) of script.js renders STATE_DATA[key]; updateView(stateData) of
\* the fixed-multiplier pages takes the image from stateMachine.state as it is
\* when the call runs (current) and the rest from the stateData passed (of key)
updateView(current, key) ==
    [image |-> StateImage(IF variant = "band" THEN key ELSE current),
     text  |-> StateText(key),
     class |-> StateClass(key),
     shake |-> IF variant = "band" THEN key \in {"PANIC", "IRRITATED"}
               ELSE StateClass(key) \in {"state-panic", "state-irritated"}]

(***************************************************************************)
(* StateMachine: operations                                                *)
(***************************************************************************)
\* faulty variant: onStateChange called on every determineState
determineStateAlwaysNotifies(s) ==
    /\ state' = Classify(s, ThresholdsInForce)
    /\ notified' = 1
    /\ view' = updateView(state', state')

\* faulty variant: PANIC, once stored, is kept
determineStateLatched(s) ==
    LET newState == IF state = "PANIC" THEN "PANIC" ELSE Classify(s, ThresholdsInForce)
    IN  /\ state' = newState
        /\ notified' = IF newState # state THEN 1 ELSE 0
        /\ view' = IF newState # state THEN updateView(newState, newState) ELSE view

\* faulty variant: onStateChange called before this.state is assigned
determineStateCallsFirst(s) ==
    LET newState == Classify(s, ThresholdsInForce)
    IN  /\ state' = newState
        /\ notified' = IF newState # state THEN 1 ELSE 0
        /\ view' = IF newState # state THEN updateView(state, newState) ELSE view

\* determineState(): sets this.state and then calls onStateChange when it changed;
\* the page's callback is updateView
determineState(s) ==
    LET newState == Classify(s, ThresholdsInForce)
    IN  /\ state' = newState
        /\ notified' = IF newState # state THEN 1 ELSE 0
        /\ view' = IF newState # state THEN updateView(newState, newState) ELSE view

update(volume) ==
    /\ rate' = RateOf(volume)
    /\ stress' = NextStress(volume)
    /\ determineState(stress')
    /\ lastOp' = "update"
    /\ UNCHANGED <<variant, sensitivity, stateDuration, thresholds, transitionTime,
                   decay, storage>>

\* what JSON.parse returns for what JSON.stringify wrote: a finite number comes
\* back as the same binary64 value, NaN and the infinities come back as null
JSONValue(x) == IF x.k \in {"nan", "inf"} THEN Null ELSE x
JSONLimits(th) ==
    IF th = Undefined THEN Undefined
    ELSE [SLEEP |-> JSONValue(th.SLEEP), CALM |-> JSONValue(th.CALM),
          ANXIOUS |-> JSONValue(th.ANXIOUS), IRRITATED |-> JSONValue(th.IRRITATED)]

\* saveSettings(): the item holds JSON of {sensitivity, duration, thresholds}
saveSettings(sens, dur, th) ==
    [present |-> TRUE, parsed |-> TRUE, sensitivity |-> JSONValue(sens),
     duration |-> JSONValue(dur), thresholds |-> JSONLimits(th)]

\* faulty variant: the fields tested for truthiness, as loadSettings does
setSettingsBandTruthy(settings) ==
    /\ variant = "band"
    /\ sensitivity' = IF Truthy(settings.sensitivity) THEN settings.sensitivity
                      ELSE sensitivity
    /\ stateDuration' = IF Truthy(settings.duration) THEN settings.duration
                        ELSE stateDuration
    /\ thresholds' = IF settings.limits # Undefined THEN settings.limits ELSE thresholds
    /\ storage' = saveSettings(sensitivity', stateDuration', thresholds')
    /\ notified' = 0
    /\ lastOp' = "setSettings"
    /\ UNCHANGED <<variant, stress, state, view, transitionTime, decay, rate>>

\* faulty variant: setSettings reclassifying the stress under the new thresholds
setSettingsBandReconciling(settings) ==
    /\ variant = "band"
    /\ sensitivity' = IF settings.sensitivity # Undefined THEN settings.sensitivity
                      ELSE sensitivity
    /\ stateDuration' = IF settings.duration # Undefined THEN settings.duration
                        ELSE stateDuration
    /\ thresholds' = IF settings.limits # Undefined THEN settings.limits ELSE thresholds
    /\ storage' = saveSettings(sensitivity', stateDuration', thresholds')
    /\ state' = Classify(stress, thresholds')
    /\ notified' = IF state' # state THEN 1 ELSE 0
    /\ view' = IF state' # state THEN updateView(state', state') ELSE view
    /\ lastOp' = "setSettings"
    /\ UNCHANGED <<variant, stress, transitionTime, decay, rate>>

\* script.js setSettings(settings); limits is Undefined or a thresholds record
setSettingsBand(settings) ==
    /\ variant = "band"
    /\ sensitivity' = IF settings.sensitivity # Undefined THEN settings.sensitivity
                      ELSE sensitivity
    /\ stateDuration' = IF settings.duration # Undefined THEN settings.duration
                        ELSE stateDuration
    /\ thresholds' = IF settings.limits # Undefined THEN settings.limits ELSE thresholds
    /\ storage' = saveSettings(sensitivity', stateDuration', thresholds')
    /\ notified' = 0
    /\ lastOp' = "setSettings"
    /\ UNCHANGED <<variant, stress, state, view, transitionTime, decay, rate>>

\* setSettings(sensitivity, transitionTime) of the fixed-multiplier classes
setSettingsFixed(sens, time) ==
    /\ variant # "band"
    /\ sensitivity' = sens
    /\ transitionTime' = time
    /\ decay' = DecayFor(time)
    /\ storage' = IF variant = "fixedStored"
                  THEN saveSettings(sens, time, Undefined)
                  ELSE storage
    /\ notified' = 0
    /\ lastOp' = "setSettings"
    /\ UNCHANGED <<variant, stress, state, view, stateDuration, thresholds, rate>>

BandSettings ==
    [sensitivity : SensitivityInputs \cup {Undefined},
     duration : DurationInputs \cup {Undefined},
     limits : LimitInputs \cup {Undefined}]

\* loadSettings() reads the item when there is one and JSON.parse accepts it
Readable(item) == item.present /\ item.parsed

\* the fields after the constructor's defaults and loadSettings() over the item
LoadedSensitivity(v, item) ==
    IF v # "fixed" /\ Readable(item) /\ Truthy(item.sensitivity)
    THEN item.sensitivity ELSE DefaultSensitivity
LoadedDuration(v, item) ==
    IF v # "band" THEN Undefined
    ELSE IF Readable(item) /\ Truthy(item.duration) THEN item.duration
    ELSE FromInt(DefaultStateDuration)
LoadedThresholds(v, item) ==
    IF v # "band" THEN Undefined
    ELSE IF Readable(item) /\ item.thresholds # Undefined THEN item.thresholds
    ELSE DefaultThresholds
LoadedTransitionTime(v, item) ==
    IF v = "band" THEN Undefined
    ELSE IF v = "fixedStored" /\ Readable(item) /\ Truthy(item.duration)
    THEN item.duration ELSE FromInt(DefaultTransitionTime)
LoadedDecay(v, item) ==
    IF v = "band" THEN Undefined
    ELSE IF v = "fixedStored" /\ Readable(item) THEN DecayFor(LoadedTransitionTime(v, item))
    ELSE DefaultDecay

\* new StateMachine(callbacks) on a page load, over the stored item
Construct(v, item) ==
    /\ variant = v
    /\ stress = FromInt(0)
    /\ state = "SLEEP"
    /\ sensitivity = LoadedSensitivity(v, item)
    /\ stateDuration = LoadedDuration(v, item)
    /\ thresholds = LoadedThresholds(v, item)
    /\ transitionTime = LoadedTransitionTime(v, item)
    /\ decay = LoadedDecay(v, item)
    /\ rate = FromInt(0)
    /\ notified = 0
    /\ lastOp = "new"

(***************************************************************************)
(* Spec: any interleaving of update and setSettings calls on an instance   *)
(* of any of the three classes, up to MaxFrames update calls.              *)
(***************************************************************************)
\* new AudioMonitor(), the start button showing, no frame requested
PageLoaded ==
    /\ isListening = FALSE
    /\ audioContext = "null"
    /\ analyser = "null"
    /\ capturing = FALSE
    /\ audioOp = "new"
    /\ average = FromInt(0)
    /\ pending = 0
    /\ contexts = 0
    /\ streams = 0
    /\ clicks = 0
    /\ buttonHidden = FALSE
    /\ alerts = 0
    /\ denied = 0
    /\ escaped = 0
    /\ loops = 0
    /\ calls = 0

\* the page script's initial state load: updateView of SLEEP
ViewLoaded == view = updateView("SLEEP", "SLEEP")

\* no second instance
NoTwin ==
    /\ twinStress = Undefined
    /\ twinState = "SLEEP"
    /\ twinNotified = 0

Fresh ==
    /\ storage = NoItem
    /\ frames = 0
    /\ hold = "none"
    /\ origin = Undefined
    /\ run = 0
    /\ PageLoaded
    /\ ViewLoaded
    /\ NoTwin

Init == (\E v \in Variants : Construct(v, NoItem)) /\ Fresh

Frame == \E volume \in Loudness :
    frames < MaxFrames /\ update(volume) /\ frames' = frames + 1
         /\ UNCHANGED <<hold, origin, run>> /\ UNCHANGED page /\ UNCHANGED twin

SettingsBand == \E settings \in BandSettings :
    setSettingsBand(settings) /\ UNCHANGED scenario /\ UNCHANGED page /\ UNCHANGED twin

SettingsFixed == \E sens \in SensitivityInputs, time \in DurationInputs :
    setSettingsFixed(sens, time) /\ UNCHANGED scenario /\ UNCHANGED page /\ UNCHANGED twin

Next == Frame \/ SettingsBand \/ SettingsFixed

Spec == Init /\ [][Next]_vars

(***************************************************************************)
(* Properties of Spec                                                      *)
(***************************************************************************)
IsNumber(x) == x.k = "fin"

\* C1: in every variant, whatever update and setSettings calls were made, the
\* stored stress is a number within [0,100].
C1_StressInRange ==
    IsNumber(stress) /\ FGe(stress, FromInt(0)) /\ FLe(stress, FromInt(100))

\* C2: an update whose resulting mood differs from the mood stored before it
\* invokes onStateChange exactly once; an update that leaves the mood as it was
\* invokes it not at all, whatever happened to stress.
C2_NotifiedOncePerMoodChange ==
    [][lastOp' = "update" => notified' = IF state' # state THEN 1 ELSE 0]_vars

\* an update that changed the mood (and notified), later than the first
C2_Witness == lastOp = "update" /\ notified = 1 /\ frames > 1 /\ state # "SLEEP"

\* C3: after every update the stored mood is the classification of the stored
\* stress under the thresholds in force: PANIC iff stress >= irritated, otherwise
\* IRRITATED iff stress >= anxious, otherwise ANXIOUS iff stress >= calm, otherwise
\* CALM iff stress >= sleep, otherwise SLEEP; and only update changes the mood.
C3_MoodIsClassification ==
    [][/\ lastOp' = "update" =>
            LET th == ThresholdsInForce'
                p == FGe(stress', th.IRRITATED)
                i == FGe(stress', th.ANXIOUS)
                a == FGe(stress', th.CALM)
                c == FGe(stress', th.SLEEP)
            IN  /\ (state' = "PANIC") <=> p
                /\ (state' = "IRRITATED") <=> (~p /\ i)
                /\ (state' = "ANXIOUS") <=> (~p /\ ~i /\ a)
                /\ (state' = "CALM") <=> (~p /\ ~i /\ ~a /\ c)
                /\ (state' = "SLEEP") <=> (~p /\ ~i /\ ~a /\ ~c)
       /\ state' # state => lastOp' = "update"]_vars

\* an update that left stress exactly on a boundary, classified into the upper mood
C3_Witness ==
    /\ lastOp = "update"
    /\ variant = "band"
    /\ stress = thresholds.IRRITATED
    /\ state = "PANIC"

\* C6: a transition duration below 0.1 given to setSettings leaves an effective
\* duration of 0.1: the duration update divides by is never below 0.1, and the
\* per-frame amount of every update is a finite number.
C6_DurationFloored ==
    /\ variant = "band" => FGe(stateDuration, MinTransitionTime)
    /\ variant # "band" =>
           decay = FDiv(FromInt(100),
                        FMul(IF FLt(transitionTime, Dec(1, 10)) THEN Dec(1, 10)
                             ELSE transitionTime, FromInt(60)))
    /\ lastOp = "update" => IsNumber(rate)

InitClassify ==
    /\ variant \in Variants
    /\ stress \in StressSamples
    /\ state = "SLEEP"
    /\ sensitivity = DefaultSensitivity
    /\ stateDuration = IF variant = "band" THEN FromInt(DefaultStateDuration) ELSE Undefined
    /\ thresholds \in IF variant = "band" THEN ClassifyLimits ELSE {Undefined}
    /\ transitionTime = IF variant = "band" THEN Undefined ELSE FromInt(DefaultTransitionTime)
    /\ decay = IF variant = "band" THEN Undefined ELSE DefaultDecay
    /\ rate = FromInt(0)
    /\ notified = 0
    /\ lastOp = "new"
    /\ Fresh

DetermineState ==
    /\ determineState(stress)
    /\ lastOp' = "determineState"
    /\ UNCHANGED <<variant, stress, sensitivity, stateDuration, thresholds,
                   transitionTime, decay, storage, rate>>
    /\ UNCHANGED scenario /\ UNCHANGED page /\ UNCHANGED twin

SpecClassify == InitClassify /\ [][DetermineState]_vars

Rank(mood) == CHOOSE i \in 1..5 : Moods[i] = mood

\* the lower bound of the mood of rank r >= 2
LowerBound(r, th) ==
    IF r = 2 THEN th.SLEEP ELSE IF r = 3 THEN th.CALM
    ELSE IF r = 4 THEN th.ANXIOUS ELSE th.IRRITATED

\* C9: classification returns the highest-ranked mood whose lower bound the stress
\* meets or exceeds, SLEEP when it meets none, for every stress and every threshold
\* set, ordered or not.
C9_HighestMoodMet ==
    lastOp = "determineState" =>
        LET met == {1} \cup {r \in 2..5 : FGe(stress, LowerBound(r, ThresholdsInForce))}
        IN  \A r \in met : Rank(state) \in met /\ Rank(state) >= r

\* out-of-order limits: 20 is below the SLEEP boundary 30 and classifies ANXIOUS
C9_Witness ==
    /\ lastOp = "determineState"
    /\ variant = "band"
    /\ thresholds = Limits(30, 10, 60, 90)
    /\ stress = FromInt(20)
    /\ state = "ANXIOUS"

(***************************************************************************)
(* SpecSustained: the band-relative class under a loudness that is kept up *)
(* frame after frame.  The instance is brought to one of ScenarioStarts by *)
(* frames of 255 under LeadLimits and a duration of 1 second (0.5 per      *)
(* frame, exact in binary64), given its settings, and from then on every   *)
(* animation frame calls update with a silent or with a noisy volume.      *)
(***************************************************************************)
Prepare ==
    /\ lastOp = "new"
    /\ setSettingsBand([sensitivity |-> Undefined, duration |-> FromInt(1),
                        limits |-> LeadLimits])
    /\ UNCHANGED scenario /\ UNCHANGED page /\ UNCHANGED twin

Approach ==
    /\ hold = "none"
    /\ lastOp # "new"
    /\ frames < MaxLeadFrames
    /\ update(FromInt(255))
    /\ frames' = frames + 1
    /\ UNCHANGED <<hold, origin, run>> /\ UNCHANGED page /\ UNCHANGED twin

\* frames one band takes at the duration the code is meant to use (floored at 0.1 s)
BandFramesOf(sec) == IF sec <= 0 THEN 6 ELSE sec * FrameRate
Seconds == CHOOSE sec \in ScenarioSeconds : FromInt(sec) = stateDuration
BandFrames == BandFramesOf(Seconds)
\* frames after which five bands have been crossed, one frame of rounding each
RunLimit == 5 * (BandFrames + 1)

Arm == \E sec \in ScenarioSeconds, lim \in ScenarioLimits, h \in {"silence", "noise"} :
    /\ hold = "none"
    /\ lastOp # "new"
    /\ stress \in ScenarioStarts
    /\ setSettingsBand([sensitivity |-> Undefined, duration |-> FromInt(sec),
                        limits |-> lim])
    /\ hold' = h
    /\ origin' = stress
    /\ run' = 0
    /\ UNCHANGED frames /\ UNCHANGED page /\ UNCHANGED twin

Sustain == \E volume \in IF hold = "silence" THEN Silent ELSE Noisy :
    /\ hold # "none"
    /\ update(volume)
    /\ run' = IF run < RunLimit THEN run + 1 ELSE run
    /\ UNCHANGED <<frames, hold, origin>> /\ UNCHANGED page /\ UNCHANGED twin

InitSustained == Construct("band", NoItem) /\ Fresh

NextSustained == Prepare \/ Approach \/ Arm \/ Sustain

\* requestAnimationFrame keeps calling loop(), which calls update
SpecSustained == InitSustained /\ [][NextSustained]_vars /\ WF_vars(Sustain)

Ascending(th) ==
    /\ FLt(th.SLEEP, th.CALM)
    /\ FLt(th.CALM, th.ANXIOUS)
    /\ FLt(th.ANXIOUS, th.IRRITATED)

\* limits as the settings panel ships them: ascending, strictly inside (0, 100)
Interior(th) ==
    /\ Ascending(th)
    /\ FGt(th.SLEEP, FromInt(0))
    /\ FLt(th.IRRITATED, maxStress)

\* C4: under silence kept up, stress is 0 and the mood SLEEP once RunLimit frames
\* have passed, whatever the duration that was set (limits inside (0, 100)).
C4_SilenceReachesSleep ==
    (hold = "silence" /\ Interior(thresholds) /\ run >= RunLimit)
        => (stress = FromInt(0) /\ state = "SLEEP")

\* C5: under noise kept up, stress is 100 and the mood PANIC once RunLimit frames
\* have passed, and from then on (limits inside (0, 100)).
C5_NoiseReachesPanic ==
    (hold = "noise" /\ Interior(thresholds) /\ run >= RunLimit)
        => (stress = maxStress /\ state = "PANIC")

\* the band the held loudness started in, and whether it started on its lower edge
OriginBand == getCurrentStateRange(origin, thresholds)
Climbing ==
    /\ hold = "noise"
    /\ Seconds > 0
    /\ Ascending(thresholds)
    /\ origin = OriginBand.min
    /\ OriginBand.max # maxStress \/ thresholds.IRRITATED = maxStress
ShippedClimb ==
    /\ Climbing
    /\ thresholds = DefaultThresholds
    /\ Seconds = 3
    /\ origin = FromInt(0)

\* C7 (as the code behaves): from the lower edge of a band, under noise and ascending
\* limits, stress is below the upper edge before update d*60, is at or above it from
\* update d*60+1, and the mood is the next one exactly from the update on which
\* the edge is met; with the shipped limits, d = 3 and stress 0 the stress is still
\* below 10 and the mood SLEEP on update 180, and CALM comes on update 181.
C7_EdgeWithinOneFrame ==
    Climbing =>
        /\ run < BandFrames => FLt(stress, OriginBand.max)
        /\ run > BandFrames => FGe(stress, OriginBand.max)
        /\ (run >= 1 /\ run <= BandFrames + 1) =>
              state = IF FGe(stress, OriginBand.max)
                      THEN Classify(OriginBand.max, thresholds)
                      ELSE Classify(origin, thresholds)
        /\ Classify(OriginBand.max, thresholds) # Classify(origin, thresholds)
        /\ ShippedClimb =>
              /\ run = 180 => (FLt(stress, FromInt(10)) /\ state = "SLEEP")
              /\ run = 181 => (FGe(stress, FromInt(10)) /\ state = "CALM")

C7_Witness ==
    /\ ShippedClimb
    /\ run = 181
    /\ lastOp = "update"
    /\ state = "CALM"

\* C7 as stated: the upper edge is reached, and the mood is the next one, on update
\* d*60; stress 10 and CALM on update 180 in the shipped example.
C7_EdgeAfterExactlyBandFrames ==
    Climbing =>
        /\ run = BandFrames =>
              /\ FGe(stress, OriginBand.max)
              /\ state = Classify(OriginBand.max, thresholds)
        /\ (ShippedClimb /\ run = 180) => (stress = FromInt(10) /\ state = "CALM")

ShippedDecay ==
    /\ hold = "silence"
    /\ thresholds = DefaultThresholds
    /\ Seconds = 3
    /\ origin = FromInt(50)

\* C8 (as the code behaves): from stress 50 under silence, shipped limits and d = 3,
\* each of the first 121 updates lowers stress by (60-30)/(3*60); stress is above 30
\* before update 120, within one step above 30 on update 120 (2 seconds), below 30 on
\* update 121 with the mood CALM, and from update 122 the step is (30-10)/(3*60).
C8_DecayThroughBand ==
    ShippedDecay =>
        /\ (run >= 1 /\ run <= 121) =>
              rate = FDiv(FromInt(60 - 30), FromInt(3 * FrameRate))
        /\ (run < 120) => FGt(stress, FromInt(30))
        /\ (run >= 1 /\ run < 120) => state = "ANXIOUS"
        /\ (run = 120) =>
              /\ FGe(stress, FromInt(30))
              /\ FLt(stress, FAdd(FromInt(30), rate))
              /\ state = "ANXIOUS"
        /\ (run = 121) => (FLt(stress, FromInt(30)) /\ state = "CALM")
        /\ (run >= 122 /\ run <= 300) =>
              /\ rate = FDiv(FromInt(30 - 10), FromInt(3 * FrameRate))
              /\ FLt(stress, FromInt(30))

C8_Witness ==
    /\ ShippedDecay
    /\ run = 122
    /\ lastOp = "update"
    /\ state = "CALM"
    /\ rate = FDiv(FromInt(20), FromInt(180))

\* C8 as stated: stress reaches 30 after about 3 seconds, i.e. it is still above 30
\* until some frame within a tenth of frame 180.
C8_ReachesThirtyAboutFrame180 ==
    (ShippedDecay /\ run < 162) => FGt(stress, FromInt(30))

(***************************************************************************)
(* SpecPersist: the two classes that keep their settings in localStorage,  *)
(* over page loads.  A load constructs the instance over the item that is  *)
(* stored, which the first load finds as some earlier page left it.        *)
(***************************************************************************)
InitPersist ==
    \E v \in {"fixedStored", "band"} : \E item \in StoredItems(v) :
        /\ Construct(v, item)
        /\ storage = item
        /\ frames = 0
        /\ hold = "none"
        /\ origin = Undefined
        /\ run = 0
        /\ PageLoaded
        /\ ViewLoaded
        /\ NoTwin

PersistFrame == \E volume \in Loudness :
    /\ frames < MaxPersistFrames
    /\ update(volume)
    /\ frames' = frames + 1
    /\ UNCHANGED <<hold, origin, run>> /\ UNCHANGED page /\ UNCHANGED twin

PersistSettingsBand ==
    \E a \in [sensitivity : PersistSensitivities \cup {Undefined},
              duration : PersistDurations \cup {Undefined},
              limits : PersistLimits \cup {Undefined}] :
        setSettingsBand(a) /\ UNCHANGED scenario /\ UNCHANGED page /\ UNCHANGED twin

PersistSettingsFixed == \E sens \in PersistSensitivities, time \in PersistDurations :
    setSettingsFixed(sens, time) /\ UNCHANGED scenario /\ UNCHANGED page /\ UNCHANGED twin

\* the page is loaded again: a new instance over the stored item
Reload ==
    /\ UNCHANGED <<variant, storage>>
    /\ UNCHANGED scenario /\ UNCHANGED page /\ UNCHANGED twin
    /\ stress' = FromInt(0)
    /\ state' = "SLEEP"
    /\ view' = updateView("SLEEP", "SLEEP")
    /\ sensitivity' = LoadedSensitivity(variant, storage)
    /\ stateDuration' = LoadedDuration(variant, storage)
    /\ thresholds' = LoadedThresholds(variant, storage)
    /\ transitionTime' = LoadedTransitionTime(variant, storage)
    /\ decay' = LoadedDecay(variant, storage)
    /\ rate' = FromInt(0)
    /\ notified' = 0
    /\ lastOp' = "new"

NextPersist == PersistFrame \/ PersistSettingsBand \/ PersistSettingsFixed \/ Reload

SpecPersist == InitPersist /\ [][NextPersist]_vars

InRange(x) == IsNumber(x) /\ FGe(x, FromInt(0)) /\ FLe(x, maxStress)
WellFormed(x) == x.k = "fin"
WellFormedLimits(th) ==
    /\ th # Undefined
    /\ WellFormed(th.SLEEP) /\ WellFormed(th.CALM)
    /\ WellFormed(th.ANXIOUS) /\ WellFormed(th.IRRITATED)

\* C11: an instance constructed over a stored item has the default in every field
\* that the item lacks or holds malformed, and every update afterwards leaves a
\* stress in [0,100] and one of the five moods.
C11_MalformedFieldsKeepDefaults ==
    /\ lastOp = "new" =>
          /\ ~WellFormed(storage.sensitivity) => sensitivity = DefaultSensitivity
          /\ (variant = "band" /\ ~WellFormed(storage.duration))
                => stateDuration = FromInt(DefaultStateDuration)
          /\ (variant = "band" /\ ~WellFormedLimits(storage.thresholds))
                => thresholds = DefaultThresholds
          /\ (variant = "fixedStored" /\ ~WellFormed(storage.duration))
                => (transitionTime = FromInt(DefaultTransitionTime) /\ decay = DefaultDecay)
    /\ lastOp = "update" =>
          (InRange(stress) /\ state \in {Moods[i] : i \in 1..5})

\* C17: setSettings leaves the stored record equal to the instance's sensitivity,
\* duration and thresholds, and the instance a page load constructs over the record
\* has the sensitivity, duration, decay and thresholds of the instance that saved it.
C17_SettingsRoundTrip ==
    [][/\ lastOp' = "setSettings" =>
            /\ storage'.sensitivity = sensitivity'
            /\ storage'.duration = IF variant = "band" THEN stateDuration'
                                   ELSE transitionTime'
            /\ variant = "band" => storage'.thresholds = thresholds'
       /\ (lastOp = "setSettings" /\ lastOp' = "new") =>
            /\ sensitivity' = sensitivity
            /\ stateDuration' = stateDuration
            /\ thresholds' = thresholds
            /\ transitionTime' = transitionTime
            /\ decay' = decay]_vars

(***************************************************************************)
(* AudioMonitor and the page script around it                              *)
(***************************************************************************)
RECURSIVE SumRange(_, _, _)
\* let sum = 0; for (i = 0; i < dataArray.length; i++) sum += dataArray[i]
\* (sums of bytes are exact integers, so they are added by halves here)
SumRange(data, lo, hi) ==
    IF lo > hi THEN 0
    ELSE IF lo = hi THEN data[lo]
    ELSE LET mid == (lo + hi) \div 2
         IN  SumRange(data, lo, mid) + SumRange(data, mid + 1, hi)
SumTo(data, n) == SumRange(data, 1, n)

\* variant of getVolume that looks at the analyser only, not at isListening
getVolumeAnalyserOnly(listening, an, data) ==
    IF an = "null" THEN FromInt(0)
    ELSE FDiv(FromInt(SumTo(data, Len(data))), FromInt(Len(data)))

\* getVolume(), data being what getByteFrequencyData writes into dataArray
getVolume(listening, an, data) ==
    IF ~listening \/ an = "null" THEN FromInt(0)
    ELSE FDiv(FromInt(SumTo(data, Len(data))), FromInt(Len(data)))

\* variant of the handler's catch block without the alert
handlerCatchSilent(n) == n

\* catch (e) { alert("Could not access microphone."); ... }: the notices after it
handlerCatch(n) == n + 1

\* loop(): one getVolume, one update, one requestAnimationFrame(loop)
loopBody(listening, an, data) ==
    /\ average' = getVolume(listening, an, data)
    /\ update(average')
    /\ audioOp' = "getVolume"

\* a click on the start button, up to the await in start(): start() returns at
\* once when the monitor listens (the handler then hides the button and calls
\* loop()), otherwise it creates an audio context and asks for the microphone
Click == \E data \in ByteArrays :
    /\ ~buttonHidden
    /\ clicks < MaxClicks
    /\ clicks' = clicks + 1
    /\ IF isListening
       THEN /\ buttonHidden' = TRUE
            /\ loops' = loops + 1
            /\ loopBody(isListening, analyser, data)
            /\ UNCHANGED <<audioContext, contexts, pending>>
       ELSE /\ audioContext' = "open"
            /\ contexts' = contexts + 1
            /\ pending' = pending + 1
            /\ audioOp' = "start"
            /\ UNCHANGED <<buttonHidden, loops, average, variant, stress, state,
                           view, sensitivity, stateDuration, thresholds, transitionTime,
                           decay, storage, rate, notified, lastOp>>
    /\ UNCHANGED <<isListening, analyser, capturing, streams, alerts, denied,
                   escaped, calls>>
    /\ UNCHANGED scenario /\ UNCHANGED twin

\* getUserMedia resolves: start() finishes, the handler hides the button and
\* calls loop()
Grant == \E data \in ByteArrays :
    /\ pending > 0
    /\ pending' = pending - 1
    /\ streams' = streams + 1
    /\ analyser' = "set"
    /\ isListening' = TRUE
    /\ capturing' = TRUE
    /\ buttonHidden' = TRUE
    /\ loops' = loops + 1
    /\ loopBody(isListening', analyser', data)
    /\ UNCHANGED <<audioContext, contexts, clicks, alerts, denied, escaped, calls>>
    /\ UNCHANGED scenario /\ UNCHANGED twin

\* getUserMedia rejects: start() logs and rethrows, the handler's catch alerts
Deny ==
    /\ pending > 0
    /\ pending' = pending - 1
    /\ denied' = denied + 1
    /\ alerts' = handlerCatch(alerts)
    /\ audioOp' = "denied"
    /\ UNCHANGED <<isListening, audioContext, analyser, capturing, average, contexts,
                   streams, clicks, buttonHidden, escaped, loops, calls>>
    /\ UNCHANGED <<variant, stress, state, view, sensitivity, stateDuration, thresholds,
                   transitionTime, decay, storage, rate, notified, lastOp>>
    /\ UNCHANGED scenario /\ UNCHANGED twin

\* one requested callback of loop() runs in the current animation frame
LoopFrame == \E data \in ByteArrays :
    /\ calls < loops
    /\ frames < MaxAppFrames
    /\ loopBody(isListening, analyser, data)
    /\ calls' = calls + 1
    /\ frames' = frames + 1
    /\ UNCHANGED <<isListening, audioContext, analyser, capturing, pending, contexts,
                   streams, clicks, buttonHidden, alerts, denied, escaped, loops>>
    /\ UNCHANGED <<hold, origin, run>> /\ UNCHANGED twin

\* the browser goes on to the next animation frame
NextFrame ==
    /\ loops > 0
    /\ calls = loops
    /\ calls' = 0
    /\ UNCHANGED <<isListening, audioContext, analyser, capturing, audioOp, average,
                   pending, contexts, streams, clicks, buttonHidden, alerts, denied,
                   escaped, loops>>
    /\ UNCHANGED <<variant, stress, state, view, sensitivity, stateDuration, thresholds,
                   transitionTime, decay, storage, rate, notified, lastOp>>
    /\ UNCHANGED scenario /\ UNCHANGED twin

\* getVolume() called on the monitor outside the loop
Sample == \E data \in ByteArrays :
    /\ average' = getVolume(isListening, analyser, data)
    /\ audioOp' = "getVolume"
    /\ UNCHANGED <<isListening, audioContext, analyser, capturing, pending, contexts,
                   streams, clicks, buttonHidden, alerts, denied, escaped, loops, calls>>
    /\ UNCHANGED <<variant, stress, state, view, sensitivity, stateDuration, thresholds,
                   transitionTime, decay, storage, rate, notified, lastOp>>
    /\ UNCHANGED scenario /\ UNCHANGED twin

\* stop()
Stop ==
    /\ IF audioContext # "null"
       THEN audioContext' = "closed" /\ isListening' = FALSE /\ capturing' = FALSE
       ELSE UNCHANGED <<audioContext, isListening, capturing>>
    /\ audioOp' = "stop"
    /\ UNCHANGED <<analyser, average, pending, contexts, streams, clicks, buttonHidden,
                   alerts, denied, escaped, loops, calls>>
    /\ UNCHANGED <<variant, stress, state, view, sensitivity, stateDuration, thresholds,
                   transitionTime, decay, storage, rate, notified, lastOp>>
    /\ UNCHANGED scenario /\ UNCHANGED twin

InitApp == Init

NextApp == Click \/ Grant \/ Deny \/ LoopFrame \/ NextFrame \/ Sample \/ Stop

SpecApp == InitApp /\ [][NextApp]_vars

\* C12: a getVolume() call returns 0 whenever no capture is active (before any
\* start, while starts are pending, after a denied start, after stop), and a value
\* in [0,255] while one is.
C12_SilentUnlessCapturing ==
    audioOp = "getVolume" =>
        IF capturing
        THEN IsNumber(average) /\ FGe(average, FromInt(0)) /\ FLe(average, FromInt(255))
        ELSE average = FromInt(0)

\* sampled after stop(): the analyser is still there, the result is 0
C12_Witness ==
    /\ audioOp = "getVolume"
    /\ ~capturing
    /\ analyser = "set"
    /\ audioContext = "closed"
    /\ average = FromInt(0)

\* C13: every denied attempt has shown one notice, no exception has left the click
\* handler, and as long as no attempt was granted no frame loop runs and the core has
\* received nothing: stress 0 and mood SLEEP as constructed.
C13_DenialNoticedOnce ==
    /\ alerts = denied
    /\ escaped = 0
    /\ streams = 0 =>
          /\ loops = 0
          /\ lastOp = "new"
          /\ stress = FromInt(0)
          /\ state = "SLEEP"

C13_Witness ==
    /\ audioOp = "denied"
    /\ denied = 2
    /\ alerts = 2
    /\ pending = 0
    /\ streams = 0
    /\ state = "SLEEP"

\* C18: at most one frame loop, one audio context and one microphone stream are ever
\* created, and update runs at most once in an animation frame.
C18_OneFrameLoop ==
    /\ loops <= 1
    /\ contexts <= 1
    /\ streams <= 1
    /\ calls <= 1

(***************************************************************************)
(* SpecTwin: two StateMachine instances with the same settings and the     *)
(* same stress are given the same loudness, frame by frame.  In the        *)
(* band-relative class the stored moods are any two moods (setSettings can *)
(* leave any mood stored at any stress); the fixed-multiplier classes      *)
(* always store the classification of the stress.                          *)
(***************************************************************************)
InitTwin ==
    /\ variant \in Variants
    /\ stress \in TwinStarts
    /\ sensitivity \in SensitivityInputs
    /\ stateDuration \in IF variant = "band" THEN TwinSeconds ELSE {Undefined}
    /\ thresholds \in IF variant = "band" THEN LimitInputs ELSE {Undefined}
    /\ transitionTime \in IF variant = "band" THEN {Undefined} ELSE TwinSeconds
    /\ decay = IF variant = "band" THEN Undefined ELSE DecayFor(transitionTime)
    /\ state \in IF variant = "band" THEN {Moods[i] : i \in 1..5}
                 ELSE {Classify(stress, FixedThresholds)}
    /\ twinStress = stress
    /\ twinState \in IF variant = "band" THEN {Moods[i] : i \in 1..5}
                     ELSE {Classify(stress, FixedThresholds)}
    /\ twinNotified = 0
    /\ rate = FromInt(0)
    /\ notified = 0
    /\ lastOp = "new"
    /\ storage = NoItem
    /\ frames = 0
    /\ hold = "none"
    /\ origin = Undefined
    /\ run = 0
    /\ PageLoaded
    /\ view = updateView(state, state)

\* update(volume) on the second instance
twinUpdate(volume) ==
    /\ twinStress' = StressAfter(twinStress, RateAt(twinStress, volume), volume)
    /\ twinState' = Classify(twinStress', ThresholdsInForce)
    /\ twinNotified' = IF twinState' # twinState THEN 1 ELSE 0

TwinFrame == \E volume \in Loudness :
    /\ frames < MaxTwinFrames
    /\ update(volume)
    /\ twinUpdate(volume)
    /\ frames' = frames + 1
    /\ UNCHANGED <<hold, origin, run>>
    /\ UNCHANGED page

SpecTwin == InitTwin /\ [][TwinFrame]_vars

\* C14: two instances with the same settings and stress that are given the same
\* loudness hold the same stress and the same mood after the update, whatever mood
\* each had stored; only their notifications may differ.
C14_UpdateDeterministic ==
    lastOp = "update" => (stress = twinStress /\ state = twinState)

\* different moods stored before the call: one instance notifies, the other does not
C14_Witness ==
    /\ lastOp = "update"
    /\ frames = 1
    /\ stress = twinStress
    /\ state = twinState
    /\ notified # twinNotified

(***************************************************************************)
(* SpecCalm: the fixed-multiplier classes.  update and setSettings are     *)
(* called in any order for a few frames; once stress is 100, setSettings   *)
(* is called a last time and every later animation frame is silent.        *)
(***************************************************************************)
InitCalm == (\E v \in {"fixed", "fixedStored"} : Construct(v, NoItem)) /\ Fresh

CalmFrame == \E volume \in Loudness :
    /\ hold = "none"
    /\ frames < MaxRiseFrames
    /\ update(volume)
    /\ frames' = frames + 1
    /\ UNCHANGED <<hold, origin, run>> /\ UNCHANGED page /\ UNCHANGED twin

Tune == \E sens \in RiseSensitivities, sec \in CalmSeconds :
    /\ hold = "none"
    /\ setSettingsFixed(sens, FromInt(sec))
    /\ UNCHANGED scenario /\ UNCHANGED page /\ UNCHANGED twin

\* updates a full-scale decay takes at the floored transition time
CalmFramesOf(sec) == IF sec <= 0 THEN 6 ELSE sec * FrameRate
CalmFrames == CalmFramesOf(CHOOSE sec \in CalmSeconds : FromInt(sec) = transitionTime)

Hush == \E sens \in RiseSensitivities, sec \in CalmSeconds :
    /\ hold = "none"
    /\ stress = maxStress
    /\ setSettingsFixed(sens, FromInt(sec))
    /\ hold' = "silence"
    /\ origin' = stress
    /\ run' = 0
    /\ UNCHANGED frames /\ UNCHANGED page /\ UNCHANGED twin

Quiet == \E volume \in Silent :
    /\ hold = "silence"
    /\ update(volume)
    /\ run' = IF run < CalmFrames + 2 THEN run + 1 ELSE run
    /\ UNCHANGED <<frames, hold, origin>> /\ UNCHANGED page /\ UNCHANGED twin

NextCalm == CalmFrame \/ Tune \/ Hush \/ Quiet

SpecCalm == InitCalm /\ [][NextCalm]_vars

\* 100 / (max(0.1, transitionTime) * 60), written out
FlooredDecay ==
    FDiv(FromInt(100),
         FMul(IF FLt(transitionTime, Dec(1, 10)) THEN Dec(1, 10) ELSE transitionTime,
              FromInt(60)))

\* the step of one update of a fixed-multiplier class, written out
FixedStep(v) ==
    IF FGt(v, FromInt(10))
    THEN LET added == FMul(FMul(FSub(v, FromInt(10)), sensitivity),
                           IF variant = "fixed" THEN Dec(5, 100) ELSE Dec(5, 1000))
         IN  rate' = added /\ stress' = Clamp(FAdd(stress, added))
    ELSE rate' = FlooredDecay /\ stress' = Clamp(FSub(stress, FlooredDecay))

\* C16 (as the code behaves): in the fixed-multiplier classes an update with a
\* loudness above the threshold raises stress by (loudness - threshold) *
\* sensitivity * gain, any other update lowers it by 100 / (max(0.1,
\* transitionTime) * 60) of the latest setSettings, both clamped to [0,100]; under
\* sustained silence from 100 stress is above 0 before update max(0.1,
\* transitionTime) * 60, less than one decay above 0 on it, and 0 after it.
C16_RiseAndDecay ==
    /\ [][\A v \in Loudness : (lastOp' = "update" /\ update(v)) => FixedStep(v)]_vars
    /\ [](hold = "silence" =>
             /\ decay = FlooredDecay
             /\ run < CalmFrames => FGt(stress, FromInt(0))
             /\ run = CalmFrames => FLt(stress, decay)
             /\ run > CalmFrames => stress = FromInt(0))

\* 2 seconds: after 120 silent updates from 100 stress is still above 0
C16_Witness ==
    /\ hold = "silence"
    /\ transitionTime = FromInt(2)
    /\ run = 120
    /\ FGt(stress, FromInt(0))

\* C16 as stated: under sustained silence from 100, stress is 0 from update
\* transitionTime * 60 on and not before.
C16_ZeroAfterExactlyTimeFrames ==
    hold = "silence" =>
        LET sec == CHOOSE t \in CalmSeconds : FromInt(t) = transitionTime
        IN  (stress = FromInt(0)) <=> (run >= sec * FrameRate)

(***************************************************************************)
(* SpecPair: two instances of the band-relative class with the same stress, *)
(* mood, duration and thresholds.  The second has another sensitivity, and *)
(* whenever the first is given a loudness above the volume threshold the   *)
(* second is given the other loudness above it.                            *)
(***************************************************************************)
PairSensitivity == FAdd(sensitivity, FromInt(1))
PairLoudness(volume) ==
    IF volume = FromInt(11) THEN FromInt(255)
    ELSE IF volume = FromInt(255) THEN FromInt(11)
    ELSE volume

InitPair ==
    /\ variant = "band"
    /\ stress \in TwinStarts
    /\ sensitivity \in SensitivityInputs
    /\ stateDuration \in TwinSeconds
    /\ thresholds \in LimitInputs
    /\ transitionTime = Undefined
    /\ decay = Undefined
    /\ state = Classify(stress, thresholds)
    /\ twinStress = stress
    /\ twinState = state
    /\ twinNotified = 0
    /\ rate = FromInt(0)
    /\ notified = 0
    /\ lastOp = "new"
    /\ storage = NoItem
    /\ frames = 0
    /\ hold = "none"
    /\ origin = stress
    /\ run = 0
    /\ PageLoaded
    /\ view = updateView(state, state)

\* update(volume) on the second instance, whose this.sensitivity is sens
twinUpdateGiven(volume, sens) ==
    /\ twinStress' = StressAfter(twinStress, RateGiven(twinStress, volume, sens), volume)
    /\ twinState' = Classify(twinStress', ThresholdsInForce)
    /\ twinNotified' = IF twinState' # twinState THEN 1 ELSE 0

PairFrame == \E volume \in Loudness :
    /\ frames < MaxPairFrames
    /\ update(volume)
    /\ twinUpdateGiven(PairLoudness(volume), PairSensitivity)
    /\ frames' = frames + 1
    /\ UNCHANGED <<hold, origin, run>>
    /\ UNCHANGED page

SpecPair == InitPair /\ [][PairFrame]_vars

InitWander == Construct("band", NoItem) /\ Fresh

Pace ==
    /\ lastOp = "new"
    /\ setSettingsBand([sensitivity |-> Undefined, duration |-> FromInt(1),
                        limits |-> Undefined])
    /\ UNCHANGED scenario /\ UNCHANGED page /\ UNCHANGED twin

Climb ==
    /\ hold = "none"
    /\ lastOp # "new"
    /\ frames < MaxClimbFrames
    /\ update(FromInt(255))
    /\ frames' = frames + 1
    /\ UNCHANGED <<hold, origin, run>> /\ UNCHANGED page /\ UNCHANGED twin

Turn == \E sec \in WanderSeconds :
    /\ hold = "none"
    /\ lastOp # "new"
    /\ setSettingsBand([sensitivity |-> Undefined, duration |-> FromInt(sec),
                        limits |-> Undefined])
    /\ hold' = "any"
    /\ origin' = stress
    /\ run' = 0
    /\ UNCHANGED frames /\ UNCHANGED page /\ UNCHANGED twin

Wander == \E volume \in Loudness :
    /\ hold = "any"
    /\ run < MaxWanderFrames
    /\ update(volume)
    /\ run' = run + 1
    /\ UNCHANGED <<frames, hold, origin>> /\ UNCHANGED page /\ UNCHANGED twin

NextWander == Pace \/ Climb \/ Turn \/ Wander

SpecWander == InitWander /\ [][NextWander]_vars

\* C24: in the band-relative class with the thresholds {10,30,60,90} and a
\* duration of at least 1 second, an update leaves the mood where it was or moves
\* it to the next mood up or down in the order SLEEP, CALM, ANXIOUS, IRRITATED,
\* PANIC, whatever the loudness.
C24_OneMoodPerUpdate ==
    [][(/\ variant = "band"
        /\ thresholds = DefaultThresholds
        /\ FGe(stateDuration, FromInt(1))
        /\ lastOp' = "update") =>
            /\ Rank(state') <= Rank(state) + 1
            /\ Rank(state) <= Rank(state') + 1]_vars

\* with the loudness left free at 3 seconds, the third update brought the mood
\* down from IRRITATED to ANXIOUS
C24_Witness ==
    /\ hold = "any"
    /\ run = MaxWanderFrames
    /\ stateDuration = FromInt(3)
    /\ lastOp = "update"
    /\ notified = 1
    /\ state = "ANXIOUS"
    /\ FLt(stress, FromInt(60))
    /\ FGe(origin, FromInt(60))

(***************************************************************************)
(* Further properties of SpecSustained                                     *)
(***************************************************************************)
\* C19: in the band-relative class, with the four boundaries in [0,100] and a
\* finite positive duration, the band getCurrentStateRange returns for the stored
\* stress has max above min, and the per-frame amount computed from it is above 0.
C19_BandNeverEmpty ==
    (/\ variant = "band"
     /\ InRange(thresholds.SLEEP) /\ InRange(thresholds.CALM)
     /\ InRange(thresholds.ANXIOUS) /\ InRange(thresholds.IRRITATED)
     /\ IsNumber(stateDuration)
     /\ FGt(stateDuration, FromInt(0))
     /\ InRange(stress)) =>
        LET range == getCurrentStateRange(stress, thresholds)
        IN  /\ FGt(range.max, range.min)
            /\ FGt(BandRate(stress, thresholds, stateDuration), FromInt(0))

(***************************************************************************)
(* Further properties of Spec                                              *)
(***************************************************************************)
\* the boundaries 0, thresholds, 100 as a set, and the adjacent pair around s:
\* the greatest boundary at or below s and the least boundary above it (100 when
\* there is none above)
LowerBoundaries(th) == {FromInt(0), th.SLEEP, th.CALM, th.ANXIOUS, th.IRRITATED}
Boundaries(th) == LowerBoundaries(th) \cup {maxStress}
Greatest(S) == CHOOSE b \in S : \A c \in S : FGe(b, c)
Least(S) == CHOOSE b \in S : \A c \in S : FLe(b, c)
AdjacentMin(s, th) == Greatest({b \in LowerBoundaries(th) : FLe(b, s)})
AdjacentMax(s, th) ==
    LET above == {b \in Boundaries(th) : FGt(b, s)}
    IN  IF above = {} THEN maxStress ELSE Least(above)

\* the step C15 describes, from the adjacent pair of boundaries around the stress
AdjacentStep(v) ==
    LET r == FDiv(FSub(AdjacentMax(stress, thresholds), AdjacentMin(stress, thresholds)),
                  FMul(stateDuration, FromInt(FrameRate)))
    IN  /\ rate' = r
        /\ stress' = Clamp(IF FGt(v, FromInt(10)) THEN FAdd(stress, r)
                           ELSE FSub(stress, r))

\* C15 (as the code behaves): in the band-relative class with ascending thresholds
\* and a stress in [0,100], an update steps by (max - min) / (duration * 60) over the
\* adjacent pair of boundaries around the stress (the pair [IRRITATED,100] from
\* IRRITATED up), adding when the loudness is above 10 and subtracting otherwise,
\* then clamps.
C15_StepOverAdjacentBand ==
    [][\A v \in Loudness :
          (/\ variant = "band"
           /\ lastOp' = "update"
           /\ Ascending(thresholds)
           /\ InRange(stress)
           /\ update(v)) => AdjacentStep(v)]_vars

\* three updates in the band [0,10) at 3 seconds, one of them downward
C15_Witness ==
    /\ variant = "band"
    /\ lastOp = "update"
    /\ thresholds = DefaultThresholds
    /\ stateDuration = FromInt(3)
    /\ rate = FDiv(FromInt(10), FromInt(180))
    /\ FGt(stress, FromInt(0))
    /\ FLt(stress, FAdd(rate, rate))
    /\ frames = 3

\* C15 as stated: the same for every threshold set, ascending or not.
C15_StepOverAdjacentBandAnyOrder ==
    [][\A v \in Loudness :
          (/\ variant = "band"
           /\ lastOp' = "update"
           /\ InRange(stress)
           /\ update(v)) => AdjacentStep(v)]_vars

\* C20: setSettings leaves stress and the stored mood as they were and calls
\* onStateChange not at all, also when the new thresholds classify the stress
\* otherwise (the update that follows stores the mood and notifies once); update
\* leaves sensitivity, duration, thresholds, decay and the persisted item as they
\* were.
C20_DisjointEffects ==
    [][/\ lastOp' = "setSettings" =>
              /\ stress' = stress
              /\ state' = state
              /\ notified' = 0
       /\ lastOp' = "update" =>
              /\ UNCHANGED <<sensitivity, stateDuration, thresholds, transitionTime,
                             decay, storage>>
              /\ (lastOp = "setSettings" /\ state' # state) => notified' = 1]_vars

\* after an update, setSettings gave limits under which the stress 0 classifies
\* as CALM; the stored mood is still SLEEP and nothing was notified
C20_Witness ==
    /\ variant = "band"
    /\ lastOp = "setSettings"
    /\ frames >= 1
    /\ thresholds = Limits(0, 30, 60, 100)
    /\ stress = FromInt(0)
    /\ state = "SLEEP"
    /\ Classify(stress, thresholds) = "CALM"
    /\ notified = 0

\* C23: after the initial view load and after every update and setSettings call,
\* the image, caption, style class and shake that updateView rendered last are
\* those of the mood stored in stateMachine.state (the fixed-multiplier pages read
\* stateMachine.state inside the callback, so it holds the new mood by then).
C23_ViewShowsStoredMood ==
    view = [image |-> StateImage(state), text |-> StateText(state),
            class |-> StateClass(state),
            shake |-> state \in {"PANIC", "IRRITATED"}]

\* an update of the fixed-multiplier page changed the mood to CALM and the
\* callback rendered the image it looked up under stateMachine.state
C23_Witness ==
    /\ variant = "fixed"
    /\ lastOp = "update"
    /\ notified = 1
    /\ state = "CALM"
    /\ view.image = "calm.png"
    /\ view.text = "Meow"

\* the band of a mood: SLEEP [0, sleep), CALM [sleep, calm), ANXIOUS [calm,
\* anxious), IRRITATED [anxious, irritated), PANIC [irritated, 100]
BandOfMood(mood, th) ==
    CASE mood = "SLEEP" -> [min |-> FromInt(0), max |-> th.SLEEP]
      [] mood = "CALM" -> [min |-> th.SLEEP, max |-> th.CALM]
      [] mood = "ANXIOUS" -> [min |-> th.CALM, max |-> th.ANXIOUS]
      [] mood = "IRRITATED" -> [min |-> th.ANXIOUS, max |-> th.IRRITATED]
      [] mood = "PANIC" -> [min |-> th.IRRITATED, max |-> FromInt(100)]

\* C21: in the band-relative class with ascending thresholds, after every update
\* the band getCurrentStateRange chooses for the stored stress is the band of the
\* stored mood and contains the stress (min <= stress < max, or stress <= 100 in
\* the top band), so the next update derives its rate from the stored mood's band.
C21_RangeIsBandOfMood ==
    (variant = "band" /\ lastOp = "update" /\ Ascending(thresholds)) =>
        LET range == getCurrentStateRange(stress, thresholds)
        IN  /\ range = BandOfMood(state, thresholds)
            /\ FGe(stress, range.min)
            /\ IF state = "PANIC" THEN FLe(stress, FromInt(100))
               ELSE FLt(stress, range.max)

====
